---- MODULE Spec2Model ----
(***************************************************************************)
(* A model of paypalrestsdk/api.py: the Api client's construction, its     *)
(* token lifecycle (validate_token_hash / get_token_hash), the request     *)
(* pipeline with its BadRequest soft landing and its UnauthorizedAccess    *)
(* retry, and the response classification of handle_response.  Besides     *)
(* Spec, the single-threaded client, there are specifications of the       *)
(* construction (SpecConfig), of default() and set_config() (SpecDefault), *)
(* of validate_token_hash and of handle_response on their own              *)
(* (SpecValidate, SpecHR), and of two threads sharing one object (Spec2T). *)
(*                                                                         *)
(* Python values are modelled as follows.  A dict is a function whose      *)
(* domain is its key set; None (as a value of token_hash) is the record    *)
(* None below, which no dict equals.  The authorization server names its   *)
(* grants in turn, so that a grant's access token differs from those of    *)
(* the TokenNames - 1 grants before it.  A response body is text that is already decoded from UTF-8: the  *)
(* empty text, a text that is not JSON, or the JSON text of a value.  Time *)
(* is counted in whole ticks of the wall clock; every read of              *)
(* datetime.now() may find it advanced.                                    *)
(***************************************************************************)
EXTENDS Integers, Sequences, FiniteSets, TLC

\* ------------------------------------------------------------------ bounds
MaxTime == 2        \* the wall clock stops advancing here
MaxDepth == 3       \* interpreter recursion limit, in request() frames
TokenNames == 3     \* the server's grants are named 1..TokenNames, in turn
MaxStatus == 620    \* handle_response is classified for statuses 0..MaxStatus
MaxInstances == 3   \* the module builds at most this many Api objects
MaxRejects == 2     \* two threads: the business endpoint answers 401 this often at most

Threads == {1, 2}
MainThread == {1}

\* ------------------------------------------------------------ Python values
None == [none |-> TRUE]
EmptyDict == [k \in {} |-> 0]
NoTime == -1        \* token_request_at = None

\* bool(x) of a dict-or-None and of a string
Truthy(d) == d # None /\ DOMAIN d # {}
TruthyStr(s) == s # ""

\* dict.get(k, default)
dict_get(d, k, default) == IF k \in DOMAIN d THEN d[k] ELSE default

\* dict.get(k) is not None
HasValue(d, k) == k \in DOMAIN d

\* util.merge_dict(a, b): the keys of both, b's value on a collision
merge_dict(a, b) == [k \in DOMAIN a \cup DOMAIN b |-> IF k \in DOMAIN b THEN b[k] ELSE a[k]]

\* ----------------------------------------------------------- response bodies
Empty == [kind |-> "empty"]
NotJson == [kind |-> "text"]
Json(v) == [kind |-> "json", val |-> v]

\* json.loads(content): the value, or ValueError
json_loads(content) ==
    IF content.kind = "json" THEN [ok |-> TRUE, val |-> content.val] ELSE [ok |-> FALSE]

Return(v) == [kind |-> "return", value |-> v]
Raise(e, s, c) == [kind |-> "raise", exc |-> e, status |-> s, content |-> c]
RaiseBuiltin(e) == [kind |-> "raise", exc |-> e]
NoResult == [kind |-> "none"]

\* ---------------------------------------------------------- handle_response
handle_response_no307(status, content) ==
    IF status \in {301, 302, 303} THEN Raise("Redirection", status, content)
    ELSE IF 200 <= status /\ status <= 299 THEN
        IF content = Empty THEN Return(EmptyDict)
        ELSE IF json_loads(content).ok THEN Return(json_loads(content).val)
        ELSE RaiseBuiltin("ValueError")
    ELSE IF status = 400 THEN Raise("BadRequest", status, content)
    ELSE IF status = 401 THEN Raise("UnauthorizedAccess", status, content)
    ELSE IF status = 403 THEN Raise("ForbiddenAccess", status, content)
    ELSE IF status = 404 THEN Raise("ResourceNotFound", status, content)
    ELSE IF status = 405 THEN Raise("MethodNotAllowed", status, content)
    ELSE IF status = 409 THEN Raise("ResourceConflict", status, content)
    ELSE IF status = 410 THEN Raise("ResourceGone", status, content)
    ELSE IF status = 422 THEN Raise("ResourceInvalid", status, content)
    ELSE IF 401 <= status /\ status <= 499 THEN Raise("ClientError", status, content)
    ELSE IF 500 <= status /\ status <= 599 THEN Raise("ServerError", status, content)
    ELSE Raise("ConnectionError", status, content)

handle_response(status, content) ==
    IF status \in {301, 302, 303, 307} THEN Raise("Redirection", status, content)
    ELSE IF 200 <= status /\ status <= 299 THEN
        IF content = Empty THEN Return(EmptyDict)
        ELSE IF json_loads(content).ok THEN Return(json_loads(content).val)
        ELSE RaiseBuiltin("ValueError")
    ELSE IF status = 400 THEN Raise("BadRequest", status, content)
    ELSE IF status = 401 THEN Raise("UnauthorizedAccess", status, content)
    ELSE IF status = 403 THEN Raise("ForbiddenAccess", status, content)
    ELSE IF status = 404 THEN Raise("ResourceNotFound", status, content)
    ELSE IF status = 405 THEN Raise("MethodNotAllowed", status, content)
    ELSE IF status = 409 THEN Raise("ResourceConflict", status, content)
    ELSE IF status = 410 THEN Raise("ResourceGone", status, content)
    ELSE IF status = 422 THEN Raise("ResourceInvalid", status, content)
    ELSE IF 401 <= status /\ status <= 499 THEN Raise("ClientError", status, content)
    ELSE IF 500 <= status /\ status <= 599 THEN Raise("ServerError", status, content)
    ELSE Raise("ConnectionError", status, content)

\* ------------------------------------------------------------- construction
LiveEndpoint == "https://api.paypal.com"
SandboxEndpoint == "https://api.sandbox.paypal.com"

\* default_endpoint with the test of the mode left out: the sandbox for every mode
default_endpoint_sandbox(m) == SandboxEndpoint

\* default_endpoint(), for self.mode = m
default_endpoint(m) == IF m = "live" THEN LiveEndpoint ELSE SandboxEndpoint

\* the fields of lines 32-34: mode, endpoint and token_endpoint, each read by dict.get
\* with the default computed from the fields before it
init_mode(args) == dict_get(args, "mode", "sandbox")
init_endpoint(args) == dict_get(args, "endpoint", default_endpoint(init_mode(args)))
init_token_endpoint(args) == dict_get(args, "token_endpoint", init_endpoint(args))

ArgKeys == {"client_id", "client_secret", "token"}
ArgValues(k) ==
    IF k = "client_id" THEN {"", "id"}
    ELSE IF k = "client_secret" THEN {"secret"}
    ELSE {"", "tokA"}
\* the configuration bags: any subset of the keys, each with one of its values
Configs ==
    UNION { {f \in [K -> {"", "id", "secret", "tokA"}] :
                \A k \in K : f[k] \in ArgValues(k)} : K \in SUBSET ArgKeys }

\* the configuration bags that also choose the mode and the endpoints
EndpointKeys == {"mode", "endpoint", "token_endpoint"}
EndpointValues(k) ==
    IF k = "mode" THEN {"live", "sandbox", "test"}
    ELSE IF k = "endpoint" THEN {"https://e.example"}
    ELSE {"https://t.example"}
EndpointChoices ==
    UNION { {f \in [K -> UNION {EndpointValues(k) : k \in EndpointKeys}] :
                \A k \in K : f[k] \in EndpointValues(k)} : K \in SUBSET EndpointKeys }
EndpointConfigs == {merge_dict(a, b) : a \in Configs, b \in EndpointChoices}
\* the part of a configuration bag that chooses the mode and the endpoints
EndpointArgs(args) == [k \in DOMAIN args \cap EndpointKeys |-> args[k]]

\* Api.__init__ with client_secret read by dict.get: no failure when it is missing
Api_init_get(args) ==
    IF "client_id" \notin DOMAIN args THEN RaiseBuiltin("KeyError")
    ELSE Return([mode |-> init_mode(args),
                 endpoint |-> init_endpoint(args),
                 token_endpoint |-> init_token_endpoint(args),
                 client_id |-> args["client_id"],
                 client_secret |-> IF "client_secret" \in DOMAIN args
                                   THEN args["client_secret"] ELSE "",
                 token_hash |-> IF "token" \in DOMAIN args /\ TruthyStr(args["token"])
                                THEN [access_token |-> args["token"], token_type |-> "Bearer"]
                                ELSE None,
                 token_request_at |-> NoTime])

\* Api.__init__: the object's fields, or the KeyError of args["client_id"] /
\* args["client_secret"]
Api_init(args) ==
    IF "client_id" \notin DOMAIN args THEN RaiseBuiltin("KeyError")
    ELSE IF "client_secret" \notin DOMAIN args THEN RaiseBuiltin("KeyError")
    ELSE Return([mode |-> init_mode(args),
                 endpoint |-> init_endpoint(args),
                 token_endpoint |-> init_token_endpoint(args),
                 client_id |-> args["client_id"],
                 client_secret |-> args["client_secret"],
                 token_hash |-> IF "token" \in DOMAIN args /\ TruthyStr(args["token"])
                                THEN [access_token |-> args["token"], token_type |-> "Bearer"]
                                ELSE None,
                 token_request_at |-> NoTime])

\* ------------------------------------------------------------ token lifecycle
\* validate_token_hash with a missing expires_in read as 0
validate_token_hash_default0(th, tra, t) ==
    IF tra # NoTime /\ Truthy(th)
       /\ (t - tra) > (IF HasValue(th, "expires_in") THEN th["expires_in"] ELSE 0)
    THEN None ELSE th

\* validate_token_hash with the expiry reached taken for the expiry exceeded
validate_token_hash_ge(th, tra, t) ==
    IF tra # NoTime /\ Truthy(th) /\ HasValue(th, "expires_in")
       /\ (t - tra) >= th["expires_in"]
    THEN None ELSE th

\* validate_token_hash: the token_hash it leaves, the clock reading t
validate_token_hash(th, tra, t) ==
    IF tra # NoTime /\ Truthy(th) /\ HasValue(th, "expires_in")
       /\ (t - tra) > th["expires_in"]
    THEN None ELSE th

\* get_token_hash, line 66, with a failed call's outcome stored as an empty dict
token_hash_after_call_stored(out, th) ==
    IF out.kind = "return" THEN out.value ELSE EmptyDict

\* get_token_hash, line 66: the assignment happens only when http_call returns
token_hash_after_call(out, th) ==
    IF out.kind = "return" THEN out.value ELSE th

\* ------------------------------------------------------------ server answers
RespStatuses == {200, 302, 400, 401, 404, 503, 600}
TokenTypes == {"Bearer"}
\* expires_in as the server states it: negative, zero, or within the clock's range
Expiries == {-1, 0, MaxTime - 1}
Payload == [id |-> "PAY-1"]
Contents == {Empty, NotJson, Json(Payload)}
\* the token documents the authorization server may answer with its n-th grant
TokenDocs(n) ==
    {[access_token |-> ToString(n), token_type |-> ty] : ty \in TokenTypes}
    \cup {[access_token |-> ToString(n), token_type |-> ty, expires_in |-> e] :
            ty \in TokenTypes, e \in Expiries}
\* the answers to a call: a body that is not JSON matters where the body is decoded,
\* with a 2xx and a 400 status
Answers == {a \in RespStatuses \X Contents : a[2] = NotJson => a[1] \in {200, 400}}
TokenAnswers(n) == Answers \cup {<<200, Json(d)>> : d \in TokenDocs(n)}
NextGrant(n) == (n % TokenNames) + 1
IsTokenDoc(content) == content.kind = "json" /\ "access_token" \in DOMAIN content.val

\* the arguments of request(): which call it is, and the caller's headers
CallerAuth == <<"Basic", "caller">>
Calls == {[id |-> "GET /v1/a", headers |-> EmptyDict],
          [id |-> "POST /v1/b", headers |-> EmptyDict],
          [id |-> "POST /v1/b", headers |-> [Authorization |-> CallerAuth]]}
NoCall == [id |-> "", headers |-> EmptyDict]
NoAnswer == <<0, Empty>>
NoEntry == [tok |-> "", state |-> "unset"]

\* --------------------------------------------------------------------- state
VARIABLES
    constructed,        \* an Api object exists
    init_result,        \* the last Api(...) call: the object returned, the token it
                        \* was given, whether both credentials were, and the mode
                        \* and endpoints it was given; or the exception raised and
                        \* the arguments
    mode, endpoint, token_endpoint,                            \* the object's fields
    client_id, client_secret, token_hash, token_request_at,
    now,                \* the wall clock
    issued,             \* the name of the server's last grant (0: none yet)
    pc, depth, call, hdr_type, http_headers,   \* each thread's position and locals
    log,                \* each thread's HTTP calls of its current invocation
    answer,             \* each thread's last HTTP answer: <<status, body>>
    entry,              \* token_hash as each thread's invocation found it
    result,             \* each thread's outcome of its last invocation
    hr_status, hr_content, hr_out,  \* a handle_response call on its own
    __api__,            \* the module's default instance, or None
    environ,            \* os.environ
    created,            \* the number of Api objects the module has built
    mod_result,         \* the last default() / set_config() call: the instance cached
                        \* before it, and what it returned or raised
    validated,          \* the last validate_token_hash() call on its own: the
                        \* object as it found it and its reading of the clock
    started,            \* each thread's reading of the clock at line 65, while its
                        \* token call is under way
    token_origin,       \* the line 65 reading of the token call that returned the
                        \* token_hash in place (NoTime: it is from no token call)
    token_by            \* the thread whose token call returned the token_hash in
                        \* place (0: it is from no token call)

objVars == <<constructed, init_result, mode, endpoint, token_endpoint, client_id,
             client_secret>>
tokVars == <<token_hash, token_request_at>>
envVars == <<now, issued>>
locVars == <<pc, depth, hdr_type, http_headers, log, result>>
hrVars == <<hr_status, hr_content, hr_out>>
ghostVars == <<answer, entry>>
modVars == <<__api__, environ, created, mod_result>>
valVars == <<validated>>
originVars == <<started, token_origin, token_by>>
vars == <<objVars, tokVars, envVars, call, locVars, ghostVars, hrVars, modVars, valVars, originVars>>

Set(f, t, v) == [f EXCEPT ![t] = v]

Init ==
    /\ constructed = FALSE
    /\ init_result = NoResult
    /\ mode = ""
    /\ endpoint = ""
    /\ token_endpoint = ""
    /\ client_id = ""
    /\ client_secret = ""
    /\ token_hash = None
    /\ token_request_at = NoTime
    /\ now = 0
    /\ issued = 0
    /\ pc = [t \in Threads |-> "idle"]
    /\ depth = [t \in Threads |-> 0]
    /\ call = [t \in Threads |-> NoCall]
    /\ hdr_type = [t \in Threads |-> ""]
    /\ http_headers = [t \in Threads |-> EmptyDict]
    /\ log = [t \in Threads |-> <<>>]
    /\ answer = [t \in Threads |-> NoAnswer]
    /\ entry = [t \in Threads |-> NoEntry]
    /\ result = [t \in Threads |-> NoResult]
    /\ hr_status = 0
    /\ hr_content = Empty
    /\ hr_out = NoResult
    /\ __api__ = None
    /\ environ = EmptyDict
    /\ created = 0
    /\ mod_result = NoResult
    /\ validated = NoResult
    /\ started = [t \in Threads |-> NoTime]
    /\ token_origin = NoTime
    /\ token_by = 0

\* Api(**args) succeeding: the object's fields are set
Construct(args) ==
    /\ ~constructed
    /\ Api_init(args).kind = "return"
    /\ constructed' = TRUE
    /\ init_result' = [kind |-> "return", token |-> dict_get(args, "token", ""),
                       complete |-> {"client_id", "client_secret"} \subseteq DOMAIN args,
                       given |-> EndpointArgs(args)]
    /\ mode' = Api_init(args).value.mode
    /\ endpoint' = Api_init(args).value.endpoint
    /\ token_endpoint' = Api_init(args).value.token_endpoint
    /\ client_id' = Api_init(args).value.client_id
    /\ client_secret' = Api_init(args).value.client_secret
    /\ token_hash' = Api_init(args).value.token_hash
    /\ token_request_at' = Api_init(args).value.token_request_at
    /\ UNCHANGED <<envVars, call, locVars, ghostVars, hrVars, modVars, valVars, originVars>>

\* Api(**args) raising: no object results
ConstructFails(args) ==
    /\ ~constructed
    /\ Api_init(args).kind = "raise"
    /\ init_result' = [kind |-> "raise", exc |-> Api_init(args).exc, args |-> args]
    /\ UNCHANGED <<constructed, mode, endpoint, token_endpoint, client_id,
                   client_secret, tokVars, envVars, call, locVars, ghostVars, hrVars, modVars, valVars, originVars>>

\* ------------------------------------------------------------------ request
\* a thread's locals after a step
Locals(t, p, d, ty, hh, lg, rs) ==
    /\ pc' = Set(pc, t, p)
    /\ depth' = Set(depth, t, d)
    /\ hdr_type' = Set(hdr_type, t, ty)
    /\ http_headers' = Set(http_headers, t, hh)
    /\ log' = Set(log, t, lg)
    /\ result' = Set(result, t, rs)

\* request() is left, by a return or by an exception no frame catches
Finish(t, lg, rs) == Locals(t, "idle", 0, "", EmptyDict, lg, rs)

\* headers() with the two accessors' values in the other order
headers_swapped(ty, tok) == [Authorization |-> <<tok, ty>>]

\* headers(): the default headers
headers(ty, tok) == [Authorization |-> <<ty, tok>>]

\* get_token_type() / get_token() once get_token_hash() has returned th:
\* the subscript, then the next step of headers() and request() lines 103-109
Subscript(t, th, lg) ==
    IF pc[t] \in {"get_token_type", "token_call_type"}
    THEN IF th # None /\ "token_type" \in DOMAIN th
         THEN Locals(t, "get_token", depth[t], th["token_type"], EmptyDict, lg, NoResult)
         ELSE Finish(t, lg, RaiseBuiltin("KeyError"))
    ELSE IF th # None /\ "access_token" \in DOMAIN th
         THEN Locals(t, "http_call", depth[t], hdr_type[t],
                     merge_dict(headers(hdr_type[t], th["access_token"]), call[t].headers),
                     lg, NoResult)
         ELSE Finish(t, lg, RaiseBuiltin("KeyError"))

\* request(url, method, body, headers) is called
Request(t, c) ==
    /\ constructed
    /\ pc[t] = "idle"
    /\ call' = Set(call, t, c)
    /\ Locals(t, "get_token_type", 1, "", EmptyDict, <<>>, NoResult)
    /\ answer' = Set(answer, t, NoAnswer)
    /\ entry' = Set(entry, t, NoEntry)
    /\ UNCHANGED <<objVars, tokVars, envVars, hrVars, modVars, valVars, originVars>>

\* the access token a token_hash holds ("" when it holds none)
TokenName(th) == IF th # None /\ "access_token" \in DOMAIN th THEN th["access_token"] ELSE ""

\* what the invocation's first validate_token_hash(), reading the clock at t0, finds
EntryState(th, tra, t0) ==
    IF th = None THEN "absent"
    ELSE IF ~HasValue(th, "expires_in") THEN "noexpiry"
    ELSE IF validate_token_hash(th, tra, t0) = None THEN "expired"
    ELSE "valid"
Found(t, t0) ==
    IF pc[t] = "get_token_type" /\ depth[t] = 1
    THEN Set(entry, t, [tok |-> TokenName(token_hash),
                        state |-> EntryState(token_hash, token_request_at, t0)])
    ELSE entry

\* get_token_hash() without the test of line 64: a token call on every access
fetch_needed_always(th) == TRUE

\* get_token_hash(), line 64: self.token_hash is None
fetch_needed(th) == th = None

\* get_token_hash(): validate_token_hash() leaves a token in place, which is returned
GetTokenHashCached(t) ==
    /\ pc[t] \in {"get_token_type", "get_token"}
    /\ \E d \in 0..(MaxTime - now) :
        /\ ~fetch_needed(validate_token_hash(token_hash, token_request_at, now + d))
        /\ now' = now + d
        /\ token_hash' = validate_token_hash(token_hash, token_request_at, now + d)
        /\ Subscript(t, token_hash', log[t])
        /\ entry' = Found(t, now + d)
    /\ UNCHANGED <<objVars, token_request_at, issued, call, answer, hrVars, modVars, valVars, originVars>>

\* get_token_hash(), line 65, noting the time of the first token call only
noted_token_request_at_first(tra, t) == IF tra = NoTime THEN t ELSE tra

\* get_token_hash(), line 65: token_request_at after the clock is read as t
noted_token_request_at(tra, t) == t

\* get_token_hash(): no token is left; the time is noted and the token call is made
GetTokenHashFetch(t) ==
    /\ pc[t] \in {"get_token_type", "get_token"}
    /\ \E d \in 0..(MaxTime - now), d2 \in 0..(MaxTime - now) :
        /\ now + d + d2 <= MaxTime
        /\ fetch_needed(validate_token_hash(token_hash, token_request_at, now + d))
        /\ now' = now + d + d2
        /\ token_request_at' = noted_token_request_at(token_request_at, now + d + d2)
        /\ token_hash' = validate_token_hash(token_hash, token_request_at, now + d)
        /\ entry' = Found(t, now + d)
        /\ started' = Set(started, t, now + d + d2)
        /\ token_origin' = IF token_hash' = None THEN NoTime ELSE token_origin
        /\ token_by' = IF token_hash' = None THEN 0 ELSE token_by
    /\ pc' = Set(pc, t, IF pc[t] = "get_token_type" THEN "token_call_type"
                        ELSE "token_call_token")
    /\ UNCHANGED <<objVars, issued, call, depth, hdr_type, http_headers, log,
                   result, answer, hrVars, modVars, valVars>>

\* a token call in the log: its status and the access token token_hash holds after it
TokenLogEntry(s, th) ==
    [kind |-> "token", status |-> s, tok |-> TokenName(th)]

\* the token call returns: its value becomes token_hash, which is subscripted
TokenResponseReturns(t) ==
    /\ pc[t] \in {"token_call_type", "token_call_token"}
    /\ \E a \in TokenAnswers(NextGrant(issued)) : LET s == a[1] c == a[2] IN
        /\ handle_response(s, c).kind = "return"
        /\ token_hash' = token_hash_after_call(handle_response(s, c), token_hash)
        /\ issued' = IF IsTokenDoc(c) THEN NextGrant(issued) ELSE issued
        /\ Subscript(t, token_hash', Append(log[t], TokenLogEntry(s, token_hash')))
        /\ answer' = Set(answer, t, a)
    /\ started' = Set(started, t, NoTime)
    /\ token_origin' = started[t]
    /\ token_by' = t
    /\ UNCHANGED <<objVars, token_request_at, now, call, entry, hrVars, modVars, valVars>>

\* the token call raises: the exception leaves get_token_hash, headers and request
TokenResponseRaises(t) ==
    /\ pc[t] \in {"token_call_type", "token_call_token"}
    /\ \E a \in Answers : LET s == a[1] c == a[2] IN
        /\ handle_response(s, c).kind = "raise"
        /\ token_hash' = token_hash_after_call(handle_response(s, c), token_hash)
        /\ Finish(t, Append(log[t], TokenLogEntry(s, token_hash')), handle_response(s, c))
        /\ answer' = Set(answer, t, a)
    /\ started' = Set(started, t, NoTime)
    /\ UNCHANGED <<objVars, token_request_at, envVars, call, entry, hrVars, modVars, valVars,
                   token_origin, token_by>>

\* request(), lines 112 and 116, with the handlers written for the base class
\* ClientError's family instead: a ServerError is taken for an expired token
except_clause_wide(out) ==
    IF out.kind # "raise" THEN "none"
    ELSE IF out.exc = "BadRequest" THEN "BadRequest"
    ELSE IF out.exc \in {"UnauthorizedAccess", "ServerError"} THEN "UnauthorizedAccess"
    ELSE "propagate"

\* request(), lines 112 and 116: which except clause takes http_call's outcome
except_clause(out) ==
    IF out.kind # "raise" THEN "none"
    ELSE IF out.exc = "BadRequest" THEN "BadRequest"
    ELSE IF out.exc = "UnauthorizedAccess" THEN "UnauthorizedAccess"
    ELSE "propagate"

\* request(), line 113, with the exception raised again instead
bad_request_result_raised(out) == out

\* request(), line 113: {"error": json.loads(error.content)}
bad_request_result(out) ==
    IF json_loads(out.content).ok
    THEN Return([error |-> json_loads(out.content).val])
    ELSE RaiseBuiltin("ValueError")

\* request(), line 117, without the test of client_id
retry_guard_token_only(th, cid) == Truthy(th)

\* request(), line 117
retry_guard(th, cid) == Truthy(th) /\ TruthyStr(cid)

\* request(), line 118, left out: the rejected token stays cached
cleared_token_hash_kept(th) == th

\* request(), line 118
cleared_token_hash(th) == None

\* a business call in the log: its status, the Authorization it carried, the arguments
\* of request(), and the access token cached when the answer arrives, with the thread
\* whose token call returned it
BizLogEntry(t, s) ==
    [kind |-> "biz", status |-> s, auth |-> http_headers[t]["Authorization"],
     call |-> call[t], cached |-> TokenName(token_hash), by |-> token_by]

\* http_call returns: request() returns the decoded body
BusinessReturns(t) ==
    /\ pc[t] = "http_call"
    /\ \E a \in Answers : LET s == a[1] c == a[2] IN
        /\ handle_response(s, c).kind = "return"
        /\ Finish(t, Append(log[t], BizLogEntry(t, s)), handle_response(s, c))
        /\ answer' = Set(answer, t, a)
    /\ UNCHANGED <<objVars, tokVars, envVars, call, entry, hrVars, modVars, valVars, originVars>>

\* http_call raises BadRequest: the soft landing of lines 112-113
BusinessBadRequest(t) ==
    /\ pc[t] = "http_call"
    /\ \E a \in Answers : LET s == a[1] c == a[2] IN
        /\ except_clause(handle_response(s, c)) = "BadRequest"
        /\ Finish(t, Append(log[t], BizLogEntry(t, s)),
                  bad_request_result(handle_response(s, c)))
        /\ answer' = Set(answer, t, a)
    /\ UNCHANGED <<objVars, tokVars, envVars, call, entry, hrVars, modVars, valVars, originVars>>

\* http_call raises UnauthorizedAccess and the guard holds: token_hash is cleared and
\* request() calls itself with the same arguments (RecursionError at the limit)
BusinessUnauthorizedRetry(t) ==
    /\ pc[t] = "http_call"
    /\ \E a \in Answers : LET s == a[1] c == a[2] IN
        /\ except_clause(handle_response(s, c)) = "UnauthorizedAccess"
        /\ retry_guard(token_hash, client_id)
        /\ token_hash' = cleared_token_hash(token_hash)
        /\ token_origin' = IF token_hash' = None THEN NoTime ELSE token_origin
        /\ token_by' = IF token_hash' = None THEN 0 ELSE token_by
        /\ IF depth[t] < MaxDepth
           THEN Locals(t, "get_token_type", depth[t] + 1, "", EmptyDict,
                       Append(log[t], BizLogEntry(t, s)), NoResult)
           ELSE Finish(t, Append(log[t], BizLogEntry(t, s)), RaiseBuiltin("RecursionError"))
        /\ answer' = Set(answer, t, a)
    /\ UNCHANGED <<objVars, token_request_at, envVars, call, entry, hrVars, modVars, valVars,
                   started>>

\* http_call raises UnauthorizedAccess and the guard fails: the error is raised again
BusinessUnauthorizedRaises(t) ==
    /\ pc[t] = "http_call"
    /\ \E a \in Answers : LET s == a[1] c == a[2] IN
        /\ except_clause(handle_response(s, c)) = "UnauthorizedAccess"
        /\ ~retry_guard(token_hash, client_id)
        /\ Finish(t, Append(log[t], BizLogEntry(t, s)), handle_response(s, c))
        /\ answer' = Set(answer, t, a)
    /\ UNCHANGED <<objVars, tokVars, envVars, call, entry, hrVars, modVars, valVars, originVars>>

\* http_call raises anything else: no clause of request() takes it
BusinessPropagates(t) ==
    /\ pc[t] = "http_call"
    /\ \E a \in Answers : LET s == a[1] c == a[2] IN
        /\ except_clause(handle_response(s, c)) = "propagate"
        /\ Finish(t, Append(log[t], BizLogEntry(t, s)), handle_response(s, c))
        /\ answer' = Set(answer, t, a)
    /\ UNCHANGED <<objVars, tokVars, envVars, call, entry, hrVars, modVars, valVars, originVars>>

Next ==
    \/ \E args \in Configs : Construct(args)
    \/ \E args \in Configs : ConstructFails(args)
    \/ \E t \in MainThread, c \in Calls : Request(t, c)
    \/ \E t \in MainThread : GetTokenHashCached(t)
    \/ \E t \in MainThread : GetTokenHashFetch(t)
    \/ \E t \in MainThread : TokenResponseReturns(t)
    \/ \E t \in MainThread : TokenResponseRaises(t)
    \/ \E t \in MainThread : BusinessReturns(t)
    \/ \E t \in MainThread : BusinessBadRequest(t)
    \/ \E t \in MainThread : BusinessUnauthorizedRetry(t)
    \/ \E t \in MainThread : BusinessUnauthorizedRaises(t)
    \/ \E t \in MainThread : BusinessPropagates(t)

Spec == Init /\ [][Next]_vars

\* ------------------------------------------ two threads share one Api object
\* The threads' steps interleave between the HTTP calls and the accessors.  The
\* environment is a small one: one configuration with both credentials and no token,
\* each thread calling request() once, without headers of its own, a token endpoint
\* that grants a token without expires_in every time, a business endpoint that
\* answers 200 or 401 and rejects at most MaxRejects calls, and a clock that stands
\* still.
RaceConfig == [client_id |-> "id", client_secret |-> "secret"]
RaceCall == [id |-> "GET /v1/a", headers |-> EmptyDict]
RaceTokenAnswer(a) == a[1] = 200 /\ IsTokenDoc(a[2]) /\ "expires_in" \notin DOMAIN a[2].val
RaceBizAnswers == {<<200, Json(Payload)>>, <<401, Empty>>}
\* the business calls answered 401 so far
Rejects ==
    Cardinality({<<t, j>> \in Threads \X (1..(3 * MaxDepth)) :
                    /\ j <= Len(log[t])
                    /\ log[t][j].kind = "biz"
                    /\ log[t][j].status = 401})

Next2T ==
    \/ Construct(RaceConfig)
    \/ \E t \in Threads : result[t] = NoResult /\ Request(t, RaceCall)
    \/ \E t \in Threads : GetTokenHashCached(t) /\ now' = now
    \/ \E t \in Threads : GetTokenHashFetch(t) /\ now' = now
    \/ \E t \in Threads : TokenResponseReturns(t) /\ RaceTokenAnswer(answer'[t])
    \/ \E t \in Threads : BusinessReturns(t) /\ answer'[t] \in RaceBizAnswers
    \/ \E t \in Threads :
        Rejects < MaxRejects /\ BusinessUnauthorizedRetry(t) /\ answer'[t] \in RaceBizAnswers
    \/ \E t \in Threads :
        Rejects < MaxRejects /\ BusinessUnauthorizedRaises(t) /\ answer'[t] \in RaceBizAnswers

Spec2T == Init /\ [][Next2T]_vars

\* ------------------------------------------------- handle_response on its own
StatusRange == 0..MaxStatus

InitHR ==
    /\ constructed = FALSE
    /\ init_result = NoResult
    /\ mode = ""
    /\ endpoint = ""
    /\ token_endpoint = ""
    /\ client_id = ""
    /\ client_secret = ""
    /\ token_hash = None
    /\ token_request_at = NoTime
    /\ now = 0
    /\ issued = 0
    /\ pc = [t \in Threads |-> "idle"]
    /\ depth = [t \in Threads |-> 0]
    /\ call = [t \in Threads |-> NoCall]
    /\ hdr_type = [t \in Threads |-> ""]
    /\ http_headers = [t \in Threads |-> EmptyDict]
    /\ log = [t \in Threads |-> <<>>]
    /\ answer = [t \in Threads |-> NoAnswer]
    /\ entry = [t \in Threads |-> NoEntry]
    /\ result = [t \in Threads |-> NoResult]
    /\ hr_status \in StatusRange
    /\ hr_content \in Contents
    /\ hr_out = NoResult
    /\ __api__ = None
    /\ environ = EmptyDict
    /\ created = 0
    /\ mod_result = NoResult
    /\ validated = NoResult
    /\ started = [t \in Threads |-> NoTime]
    /\ token_origin = NoTime
    /\ token_by = 0

\* handle_response(response, content) is called
HandleResponse ==
    /\ hr_out = NoResult
    /\ hr_out' = handle_response(hr_status, hr_content)
    /\ UNCHANGED <<objVars, tokVars, envVars, call, locVars, ghostVars, hr_status,
                   hr_content, modVars, valVars, originVars>>

NextHR == HandleResponse

SpecHR == InitHR /\ [][NextHR]_vars

\* ------------------------------------------------ the construction on its own
NextConfig ==
    \/ \E args \in EndpointConfigs : Construct(args)
    \/ \E args \in EndpointConfigs : ConstructFails(args)

SpecConfig == Init /\ [][NextConfig]_vars

\* ------------------------------------------------- default() and set_config()
EnvironKeys == {"PAYPAL_CLIENT_ID", "PAYPAL_CLIENT_SECRET", "PAYPAL_MODE"}
EnvironValues(k) ==
    IF k = "PAYPAL_CLIENT_ID" THEN {"id"}
    ELSE IF k = "PAYPAL_CLIENT_SECRET" THEN {"secret"}
    ELSE {"live"}
Environs ==
    UNION { {f \in [K -> {"id", "secret", "live"}] :
                \A k \in K : f[k] \in EnvironValues(k)} : K \in SUBSET EnvironKeys }

\* an Api object of the module: which one it is, and its fields
Instance(n, fields) == [id |-> n, fields |-> fields]

\* the arguments default() calls Api with, line 216
default_args(env) ==
    [mode |-> dict_get(env, "PAYPAL_MODE", "sandbox"),
     client_id |-> env["PAYPAL_CLIENT_ID"],
     client_secret |-> env["PAYPAL_CLIENT_SECRET"]]

\* default() that builds an instance on every call
default_call_rebuild(api, env, n) ==
    IF {"PAYPAL_CLIENT_ID", "PAYPAL_CLIENT_SECRET"} \subseteq DOMAIN env
    THEN [result |-> Return(Instance(n, Api_init(default_args(env)).value)),
          api |-> Instance(n, Api_init(default_args(env)).value)]
    ELSE [result |-> RaiseBuiltin("MissingConfig"), api |-> api]

\* default(): what it returns or raises and the __api__ it leaves; n names the
\* object it builds
default_call(api, env, n) ==
    IF api # None THEN [result |-> Return(api), api |-> api]
    ELSE IF {"PAYPAL_CLIENT_ID", "PAYPAL_CLIENT_SECRET"} \subseteq DOMAIN env
    THEN [result |-> Return(Instance(n, Api_init(default_args(env)).value)),
          api |-> Instance(n, Api_init(default_args(env)).value)]
    ELSE [result |-> RaiseBuiltin("MissingConfig"), api |-> api]

\* set_config(**config): what it returns or raises and the __api__ it leaves
set_config_call(api, config, n) ==
    IF Api_init(config).kind = "return"
    THEN [result |-> Return(Instance(n, Api_init(config).value)),
          api |-> Instance(n, Api_init(config).value)]
    ELSE [result |-> Api_init(config), api |-> api]

InitDefault ==
    /\ constructed = FALSE
    /\ init_result = NoResult
    /\ mode = ""
    /\ endpoint = ""
    /\ token_endpoint = ""
    /\ client_id = ""
    /\ client_secret = ""
    /\ token_hash = None
    /\ token_request_at = NoTime
    /\ now = 0
    /\ issued = 0
    /\ pc = [t \in Threads |-> "idle"]
    /\ depth = [t \in Threads |-> 0]
    /\ call = [t \in Threads |-> NoCall]
    /\ hdr_type = [t \in Threads |-> ""]
    /\ http_headers = [t \in Threads |-> EmptyDict]
    /\ log = [t \in Threads |-> <<>>]
    /\ answer = [t \in Threads |-> NoAnswer]
    /\ entry = [t \in Threads |-> NoEntry]
    /\ result = [t \in Threads |-> NoResult]
    /\ hr_status = 0
    /\ hr_content = Empty
    /\ hr_out = NoResult
    /\ __api__ = None
    /\ environ \in Environs
    /\ created = 0
    /\ mod_result = NoResult
    /\ validated = NoResult
    /\ started = [t \in Threads |-> NoTime]
    /\ token_origin = NoTime
    /\ token_by = 0

\* a call of the module: the outcome c, which built an object or did not
ModuleCall(op, c) ==
    /\ c.api # __api__ => created < MaxInstances
    /\ __api__' = c.api
    /\ created' = IF c.api # __api__ THEN created + 1 ELSE created
    /\ mod_result' = [kind |-> c.result.kind, op |-> op, before |-> __api__,
                      env |-> environ, out |-> c.result]
    /\ UNCHANGED <<objVars, tokVars, envVars, call, locVars, ghostVars, hrVars, environ, valVars, originVars>>

\* default() is called
Default ==
    /\ ModuleCall("default", default_call(__api__, environ, created + 1))

\* set_config(**config) is called
SetConfig(config) ==
    /\ ModuleCall("set_config", set_config_call(__api__, config, created + 1))

\* the environment is changed between two calls
PutEnviron(env) ==
    /\ environ' = env
    /\ UNCHANGED <<objVars, tokVars, envVars, call, locVars, ghostVars, hrVars, __api__,
                   created, mod_result, valVars, originVars>>

NextDefault ==
    \/ Default
    \/ \E config \in Configs : SetConfig(config)
    \/ \E env \in Environs : PutEnviron(env)

SpecDefault == InitDefault /\ [][NextDefault]_vars

\* --------------------------------------------- validate_token_hash on its own
\* the values token_hash takes: None, the token of the construction, and what a token
\* call may return
TokenHashes ==
    {None, EmptyDict, [access_token |-> "tokA", token_type |-> "Bearer"]}
    \cup UNION {TokenDocs(n) : n \in 1..TokenNames}

\* an object between two calls: a token with an expiry came from a token call, which
\* noted its time
InitValidate ==
    /\ constructed = TRUE
    /\ init_result = NoResult
    /\ mode = "sandbox"
    /\ endpoint = SandboxEndpoint
    /\ token_endpoint = SandboxEndpoint
    /\ client_id = "id"
    /\ client_secret = "secret"
    /\ token_hash \in TokenHashes
    /\ now \in 0..MaxTime
    /\ token_request_at \in {NoTime} \cup 0..now
    /\ (token_hash # None /\ "token_type" \in DOMAIN token_hash
            /\ token_hash # [access_token |-> "tokA", token_type |-> "Bearer"])
        => token_request_at # NoTime
    /\ token_hash = EmptyDict => token_request_at # NoTime
    /\ issued = 0
    /\ pc = [t \in Threads |-> "idle"]
    /\ depth = [t \in Threads |-> 0]
    /\ call = [t \in Threads |-> NoCall]
    /\ hdr_type = [t \in Threads |-> ""]
    /\ http_headers = [t \in Threads |-> EmptyDict]
    /\ log = [t \in Threads |-> <<>>]
    /\ answer = [t \in Threads |-> NoAnswer]
    /\ entry = [t \in Threads |-> NoEntry]
    /\ result = [t \in Threads |-> NoResult]
    /\ hr_status = 0
    /\ hr_content = Empty
    /\ hr_out = NoResult
    /\ __api__ = None
    /\ environ = EmptyDict
    /\ created = 0
    /\ mod_result = NoResult
    /\ validated = NoResult
    /\ started = [t \in Threads |-> NoTime]
    /\ token_origin = NoTime
    /\ token_by = 0

\* validate_token_hash() is called; it reads the clock, which may have advanced
ValidateTokenHash ==
    /\ \E d \in 0..(MaxTime - now) :
        /\ now' = now + d
        /\ token_hash' = validate_token_hash(token_hash, token_request_at, now + d)
        /\ validated' = [kind |-> "return", token_hash |-> token_hash,
                         token_request_at |-> token_request_at, at |-> now + d]
    /\ UNCHANGED <<objVars, token_request_at, issued, call, locVars, ghostVars, hrVars,
                   modVars, originVars>>

NextValidate == ValidateTokenHash

SpecValidate == InitValidate /\ [][NextValidate]_vars

\* ---------------------------------------------------------------- properties
Is2xx(s) == 200 <= s /\ s <= 299
Done(t) == pc[t] = "idle" /\ result[t].kind # "none"
Last(lg) == lg[Len(lg)]
BizCalls(lg) == {i \in 1..Len(lg) : lg[i].kind = "biz"}
TokenCalls(lg) == {i \in 1..Len(lg) : lg[i].kind = "token"}
\* the calls an invocation has made so far, the one in flight included
BizDispatched(t) == Cardinality(BizCalls(log[t])) + (IF pc[t] = "http_call" THEN 1 ELSE 0)
TokenDispatched(t) ==
    Cardinality(TokenCalls(log[t]))
    + (IF pc[t] \in {"token_call_type", "token_call_token"} THEN 1 ELSE 0)
\* the business calls of an invocation that follow an earlier one: the retries
Retries(lg) == {j \in BizCalls(lg) : \E i \in BizCalls(lg) : i < j}
\* the business call that a retry j follows: the one whose 401 caused it
Rejected(lg, j) == CHOOSE i \in BizCalls(lg) : i < j /\ \A k \in BizCalls(lg) : k < j => k <= i
NoBiz401(lg) == \A i \in BizCalls(lg) : lg[i].status # 401
CallerOverrides(t) == "Authorization" \in DOMAIN call[t].headers
Raised(t, e) == result[t].kind = "raise" /\ result[t].exc = e

\* C1: on a client with credentials an invocation of request() dispatches at most two
\* business calls, and when the second one is answered 401 the invocation ends there,
\* raising UnauthorizedAccess.
C1_RetryBounded ==
    \A t \in Threads :
        TruthyStr(client_id) =>
            /\ BizDispatched(t) <= 2
            /\ (/\ Cardinality(BizCalls(log[t])) = 2
                /\ Last(log[t]).kind = "biz"
                /\ Last(log[t]).status = 401)
               => (Done(t) /\ Raised(t, "UnauthorizedAccess"))

\* C2 as stated: a business call that follows a 401 within the invocation is the same
\* request, comes after a token call made since that 401, and carries the access token
\* that token call returned, never the Authorization of the rejected call.
C2_RetryCarriesFreshToken ==
    \A t \in Threads : \A j \in Retries(log[t]) :
        /\ log[t][j - 1].kind = "token"
        /\ log[t][j].auth[2] = log[t][j - 1].tok
        /\ log[t][Rejected(log[t], j)].call = log[t][j].call
        /\ log[t][Rejected(log[t], j)].auth # log[t][j].auth

\* C2, amended: after a 401 with the guard holding, token_hash is cleared and the next
\* HTTP call is a token call; a business call that follows within the invocation is
\* the same request and, unless the caller's own headers carry Authorization (which
\* then overrides the default header on the retry as on the first attempt), carries the
\* access token that the token call just before it returned, which differs from the
\* rejected one.
C2_RetryCarriesFreshTokenUnlessOverridden ==
    \A t \in Threads :
        /\ (pc[t] = "get_token_type" /\ depth[t] > 1) => token_hash = None
        /\ \A i \in BizCalls(log[t]) :
            i < Len(log[t]) => (log[t][i].status = 401 /\ log[t][i + 1].kind = "token")
        /\ \A j \in Retries(log[t]) :
            /\ log[t][j - 1].kind = "token"
            /\ \A i \in BizCalls(log[t]) : log[t][i].call = log[t][j].call
            /\ IF CallerOverrides(t)
               THEN log[t][j].auth = CallerAuth
               ELSE /\ log[t][j].auth[2] = log[t][j - 1].tok
                    /\ log[t][Rejected(log[t], j)].auth[2] # log[t][j].auth[2]

\* C2's case: a retried business call that carries the newly fetched token
C2_Witness ==
    \E t \in Threads : \E j \in Retries(log[t]) :
        /\ ~CallerOverrides(t)
        /\ log[t][j].auth[2] = log[t][j - 1].tok
        /\ token_hash # None

\* the outcome the response table of the specification gives a status
SpecTable(s) ==
    CASE s \in {301, 302, 303, 307} -> "Redirection"
      [] s \in 200..299 -> "success"
      [] s = 400 -> "BadRequest"
      [] s = 401 -> "UnauthorizedAccess"
      [] s = 403 -> "ForbiddenAccess"
      [] s = 404 -> "ResourceNotFound"
      [] s = 405 -> "MethodNotAllowed"
      [] s = 409 -> "ResourceConflict"
      [] s = 410 -> "ResourceGone"
      [] s = 422 -> "ResourceInvalid"
      [] s \in (401..499) \ {401, 403, 404, 405, 409, 410, 422} -> "ClientError"
      [] s \in 500..599 -> "ServerError"
      [] OTHER -> "ConnectionError"

\* C3: with no 401 from the business endpoint, an invocation that finds a token with a
\* known expiry not yet exceeded makes no token call and sends the cached token, and
\* one that finds the expiry exceeded makes exactly one token call and sends the token
\* that call returned.
C3_CachedUntilExpiry ==
    \A t \in Threads :
        NoBiz401(log[t]) =>
            /\ entry[t].state = "valid" =>
                /\ TokenDispatched(t) = 0
                /\ \A j \in BizCalls(log[t]) :
                    ~CallerOverrides(t) => log[t][j].auth[2] = entry[t].tok
            /\ entry[t].state = "expired" =>
                /\ TokenDispatched(t) = 1
                /\ \A j \in BizCalls(log[t]) :
                    ~CallerOverrides(t) => log[t][j].auth[2] = log[t][j - 1].tok

\* C4: a 400 answer to a business call ends the invocation with the return value
\* {"error": <decoded body>}, without a further call and with token_hash as it was.
C4_BadRequestSoftLanding ==
    \A t \in Threads :
        (Len(log[t]) > 0 /\ Last(log[t]).kind = "biz" /\ Last(log[t]).status = 400) =>
            /\ Done(t)
            /\ result[t].kind = "return"
            /\ DOMAIN result[t].value = {"error"}
            /\ json_loads(answer[t][2]).ok
            /\ result[t].value["error"] = json_loads(answer[t][2]).val
            /\ TokenName(token_hash) = Last(log[t]).cached

\* C5 as stated: no invocation of request() raises BadRequest.
C5_BadRequestNeverRaised ==
    \A t \in Threads : ~Raised(t, "BadRequest")

\* C5, amended: a 400 from the business endpoint never surfaces as a raised BadRequest;
\* request() raises BadRequest only for a 400 from the token endpoint, during the
\* first acquisition or during the 401 retry.
C5_BadRequestOnlyFromTokenEndpoint ==
    \A t \in Threads :
        Raised(t, "BadRequest") =>
            /\ Len(log[t]) > 0
            /\ Last(log[t]).kind = "token"
            /\ Last(log[t]).status = 400

\* C5's case: a 400 from the business endpoint, and the invocation has returned
C5_Witness ==
    \E t \in Threads :
        /\ Done(t)
        /\ Len(log[t]) > 0
        /\ Last(log[t]).kind = "biz"
        /\ Last(log[t]).status = 400
        /\ result[t].kind = "return"

\* C6: a non-2xx answer from the token endpoint ends the invocation at once with the
\* error the table gives that status, carrying the status and the body; no call
\* follows it (no business call, no second token call, also for a 401), and
\* token_hash is None afterwards.
C6_TokenErrorPropagates ==
    \A t \in Threads :
        (Len(log[t]) > 0 /\ Last(log[t]).kind = "token" /\ ~Is2xx(Last(log[t]).status)) =>
            /\ Done(t)
            /\ result[t].kind = "raise"
            /\ result[t].exc = SpecTable(Last(log[t]).status)
            /\ result[t].status = Last(log[t]).status
            /\ result[t].content = answer[t][2]
            /\ token_hash = None

\* C6's case: the token endpoint answers 401 in the retry that follows a business 401
C6_Witness ==
    \E t \in Threads :
        /\ Done(t)
        /\ Len(log[t]) > 1
        /\ Last(log[t]).kind = "token"
        /\ Last(log[t]).status = 401
        /\ Raised(t, "UnauthorizedAccess")
        /\ token_hash = None

\* C7: a business answer whose status is neither 2xx, 400 nor 401 ends the invocation
\* with the error the table gives that status, carrying the status and the body; it
\* is not retried (every earlier business call of the invocation was a 401), and
\* token_hash is as it was when the answer arrived.
C7_OtherErrorsPropagate ==
    \A t \in Threads :
        (/\ Len(log[t]) > 0
         /\ Last(log[t]).kind = "biz"
         /\ ~Is2xx(Last(log[t]).status)
         /\ Last(log[t]).status \notin {400, 401}) =>
            /\ Done(t)
            /\ result[t].kind = "raise"
            /\ result[t].exc = SpecTable(Last(log[t]).status)
            /\ result[t].status = Last(log[t]).status
            /\ result[t].content = answer[t][2]
            /\ token_hash # None
            /\ TokenName(token_hash) = Last(log[t]).cached
            /\ \A i \in BizCalls(log[t]) : i < Len(log[t]) => log[t][i].status = 401

\* C7's case: a 503 from the business endpoint has been raised as ServerError
C7_Witness ==
    \E t \in Threads :
        /\ Done(t)
        /\ Len(log[t]) > 0
        /\ Last(log[t]).kind = "biz"
        /\ Last(log[t]).status = 503
        /\ Raised(t, "ServerError")
        /\ Truthy(token_hash)

\* C8 as stated: handle_response gives every status the outcome of the table, a 2xx
\* status always a success: the empty mapping for an empty body, the decoded body
\* otherwise; every error carries the status and the body.
C8_ClassificationTotal ==
    hr_out # NoResult =>
        IF SpecTable(hr_status) = "success"
        THEN /\ hr_out.kind = "return"
             /\ hr_content = Empty => hr_out.value = EmptyDict
             /\ json_loads(hr_content).ok => hr_out.value = json_loads(hr_content).val
        ELSE hr_out = Raise(SpecTable(hr_status), hr_status, hr_content)

\* C8, amended: handle_response gives every status the outcome of the table, except
\* that a 2xx status with a body that is neither empty nor JSON raises the decoder's
\* ValueError instead of a success; every error of the table carries the status and
\* the body.
C8_ClassificationTotalButForDecoding ==
    hr_out # NoResult =>
        IF SpecTable(hr_status) = "success"
        THEN IF hr_content = Empty THEN hr_out = Return(EmptyDict)
             ELSE IF json_loads(hr_content).ok
                  THEN hr_out = Return(json_loads(hr_content).val)
                  ELSE hr_out = RaiseBuiltin("ValueError")
        ELSE hr_out = Raise(SpecTable(hr_status), hr_status, hr_content)

\* C8's case: a 2xx answer whose body is not JSON has been classified
C8_Witness ==
    /\ hr_status = 204
    /\ hr_content = NotJson
    /\ hr_out = RaiseBuiltin("ValueError")

\* C9: an invocation that finds a token without an expiry value makes no token call and
\* leaves the token in place, whatever time has passed, as long as no business call
\* is answered 401; and until a token is first fetched or rejected, token_hash is what
\* the construction made of the supplied token: Bearer and that token, or None.
C9_NoExpiryNeverExpires ==
    /\ \A t \in Threads :
        (entry[t].state = "noexpiry" /\ NoBiz401(log[t])) =>
            /\ TokenDispatched(t) = 0
            /\ token_hash # None
            /\ TokenName(token_hash) = entry[t].tok
            /\ ~HasValue(token_hash, "expires_in")
    /\ (/\ constructed
        /\ token_request_at = NoTime
        /\ \A t \in Threads : NoBiz401(log[t])) =>
            token_hash = IF TruthyStr(init_result.token)
                         THEN [access_token |-> init_result.token, token_type |-> "Bearer"]
                         ELSE None

\* C9's case: a fetched token without expires_in is used again after time has passed
C9_Witness ==
    \E t \in Threads :
        /\ entry[t].state = "noexpiry"
        /\ token_request_at # NoTime
        /\ now > token_request_at
        /\ Done(t)
        /\ result[t].kind = "return"
        /\ TokenCalls(log[t]) = {}

C11_EndpointFromMode ==
    constructed =>
        /\ mode = dict_get(init_result.given, "mode", "sandbox")
        /\ mode = "live" => endpoint = "https://api.paypal.com"
        /\ mode # "live" => endpoint = "https://api.sandbox.paypal.com"
        /\ token_endpoint = dict_get(init_result.given, "token_endpoint", endpoint)

\* C11, amended: the base endpoint is the one the configuration gives; only when it
\* gives none is the base endpoint derived from the mode, https://api.paypal.com for
\* "live" and https://api.sandbox.paypal.com for an absent or any other mode.  The
\* mode defaults to sandbox, and the token endpoint equals the base endpoint (given or
\* derived) unless a token endpoint is given.
C11_EndpointFromModeUnlessGiven ==
    constructed =>
        /\ mode = dict_get(init_result.given, "mode", "sandbox")
        /\ IF "endpoint" \in DOMAIN init_result.given
           THEN endpoint = init_result.given["endpoint"]
           ELSE /\ mode = "live" => endpoint = "https://api.paypal.com"
                /\ mode # "live" => endpoint = "https://api.sandbox.paypal.com"
        /\ token_endpoint = dict_get(init_result.given, "token_endpoint", endpoint)

\* C11's case: a client constructed with mode "live" and no endpoint of its own
C11_Witness ==
    /\ constructed
    /\ init_result.given = [mode |-> "live"]
    /\ endpoint = "https://api.paypal.com"
    /\ token_endpoint = "https://api.paypal.com"

\* C12: default() returns the cached instance when there is one; otherwise it builds
\* one from PAYPAL_CLIENT_ID, PAYPAL_CLIENT_SECRET and PAYPAL_MODE (sandbox when
\* absent) and caches it, or, a required variable missing, raises MissingConfig and
\* leaves none cached.  set_config() caches the instance it has built, a new one, and
\* a set_config() that fails leaves the instance cached before it in place.
C12_DefaultInstance ==
    mod_result # NoResult =>
        /\ mod_result.op = "default" =>
            IF mod_result.before # None
            THEN mod_result.out = Return(mod_result.before) /\ __api__ = mod_result.before
            ELSE IF {"PAYPAL_CLIENT_ID", "PAYPAL_CLIENT_SECRET"} \subseteq DOMAIN mod_result.env
            THEN /\ mod_result.kind = "return"
                 /\ __api__ = mod_result.out.value
                 /\ __api__.id = created
                 /\ __api__.fields.client_id = mod_result.env["PAYPAL_CLIENT_ID"]
                 /\ __api__.fields.client_secret = mod_result.env["PAYPAL_CLIENT_SECRET"]
                 /\ __api__.fields.mode = dict_get(mod_result.env, "PAYPAL_MODE", "sandbox")
            ELSE mod_result.out = RaiseBuiltin("MissingConfig") /\ __api__ = None
        /\ mod_result.op = "set_config" =>
            IF mod_result.kind = "return"
            THEN /\ __api__ = mod_result.out.value
                 /\ __api__.id = created
                 /\ __api__ # mod_result.before
            ELSE __api__ = mod_result.before

\* C12's case: default() has returned the instance that an earlier default() built
\* from the environment, after the environment has lost its variables
C12_Witness ==
    /\ mod_result # NoResult
    /\ mod_result.op = "default"
    /\ mod_result.before # None
    /\ mod_result.before.fields.mode = "live"
    /\ mod_result.env = EmptyDict
    /\ mod_result.out = Return(__api__)

\* C13: validate_token_hash() sets token_hash to None exactly when there is a
\* token_hash, a token_request_at, an expires_in in the token_hash, and the time since
\* token_request_at is strictly greater than expires_in; in every other case, the
\* time equal to expires_in included, token_hash stays as it is.  In all cases
\* token_request_at and the configuration stay as they are and no HTTP call is made.
C13_ValidateClearsExactlyWhenExpired ==
    validated # NoResult =>
        /\ token_hash =
            IF /\ validated.token_hash # None
               /\ validated.token_request_at # NoTime
               /\ "expires_in" \in DOMAIN validated.token_hash
               /\ validated.at - validated.token_request_at
                    > validated.token_hash["expires_in"]
            THEN None
            ELSE validated.token_hash
        /\ token_request_at = validated.token_request_at
        /\ <<mode, endpoint, token_endpoint, client_id, client_secret>>
            = <<"sandbox", SandboxEndpoint, SandboxEndpoint, "id", "secret">>
        /\ issued = 0
        /\ \A t \in Threads : log[t] = <<>> /\ pc[t] = "idle"

\* C13's case: a token whose expires_in is exceeded by one tick has been cleared
C13_Witness ==
    /\ validated # NoResult
    /\ validated.token_hash # None
    /\ "expires_in" \in DOMAIN validated.token_hash
    /\ validated.at - validated.token_request_at = validated.token_hash["expires_in"] + 1
    /\ token_hash = None
    /\ token_request_at = validated.token_request_at

\* C14: token_request_at is noted when the token call is begun, before its answer is
\* known: while a thread's token call is under way token_request_at already is that
\* call's line 65 reading and token_hash is still None, and a token_hash that a token
\* call returned is always in place together with the line 65 reading of that very
\* call, never with that of an earlier or a later token call.
C14_TimestampOfTheReturningCall ==
    /\ \A t \in Threads :
        pc[t] \in {"token_call_type", "token_call_token"} =>
            /\ started[t] # NoTime
            /\ token_request_at = started[t]
            /\ token_hash = None
    /\ (token_hash # None /\ token_request_at # NoTime /\ "tokA" # TokenName(token_hash)) =>
            token_origin # NoTime
    /\ token_origin # NoTime =>
            /\ token_hash # None
            /\ token_request_at = token_origin

\* C14's case: the token in place is the one a second token call returned, begun
\* after the first one
C14_Witness ==
    /\ TokenName(token_hash) = "2"
    /\ token_origin > 0
    /\ token_request_at = token_origin
    /\ \E t \in Threads : pc[t] = "http_call" /\ Cardinality(TokenCalls(log[t])) = 1

\* C15: a 401 answer to a business call that finds the guard of line 117 false (no
\* token in place, or a client_id that is empty) ends the invocation with that
\* UnauthorizedAccess raised to the caller: it is the invocation's only business
\* call, no call follows it, and token_hash is as it was when the answer arrived.
C15_NoRetryWithoutGuard ==
    \A t \in Threads :
        (/\ Len(log[t]) > 0
         /\ Last(log[t]).kind = "biz"
         /\ Last(log[t]).status = 401
         /\ (Last(log[t]).cached = "" \/ ~TruthyStr(client_id))) =>
            /\ Done(t)
            /\ result[t] = Raise("UnauthorizedAccess", 401, answer[t][2])
            /\ Cardinality(BizCalls(log[t])) = 1
            /\ TokenName(token_hash) = Last(log[t]).cached
            /\ (token_hash = None) = (Last(log[t]).cached = "")

\* C15's case: a client with an empty client_id has fetched a token, and its business
\* call is answered 401
C15_Witness ==
    \E t \in Threads :
        /\ client_id = ""
        /\ Done(t)
        /\ Len(log[t]) = 2
        /\ log[t][1].kind = "token"
        /\ log[t][2].kind = "biz"
        /\ log[t][2].status = 401
        /\ Raised(t, "UnauthorizedAccess")
        /\ token_hash # None

\* C16: a client constructed without a token has token_hash None and has made no
\* HTTP call until request() is first called.  When a business call is dispatched no
\* token call of the invocation is under way and a token is in place; a token call
\* just before it has returned; and unless the caller's headers carry Authorization
\* the business call carries the access token that token_hash holds at that moment.
C16_LazyAndOrdered ==
    /\ (/\ constructed
        /\ ~TruthyStr(init_result.token)
        /\ \A t \in Threads : pc[t] = "idle" /\ result[t] = NoResult) =>
            /\ token_hash = None
            /\ token_request_at = NoTime
            /\ issued = 0
            /\ \A t \in Threads : log[t] = <<>>
    /\ \A t \in Threads :
        pc[t] = "http_call" =>
            /\ started[t] = NoTime
            /\ token_hash # None
            /\ Len(log[t]) > 0 => (Last(log[t]).kind = "token" /\ Is2xx(Last(log[t]).status))
            /\ ~CallerOverrides(t) =>
                /\ http_headers[t]["Authorization"][2] = token_hash["access_token"]
                /\ Len(log[t]) > 0 => http_headers[t]["Authorization"][2] = Last(log[t]).tok
    /\ \A t \in Threads : \A j \in BizCalls(log[t]) :
        /\ log[t][j].call.headers = EmptyDict => log[t][j].auth[2] = log[t][j].cached
        /\ j > 1 => (\/ log[t][j - 1].kind = "biz"
                     \/ Is2xx(log[t][j - 1].status))

\* C16's case: a client constructed without a token has dispatched its first
\* business call, after the token call that the invocation needed
C16_Witness ==
    \E t \in Threads :
        /\ constructed
        /\ ~TruthyStr(init_result.token)
        /\ pc[t] = "http_call"
        /\ ~CallerOverrides(t)
        /\ Len(log[t]) = 1
        /\ log[t][1].kind = "token"
        /\ http_headers[t]["Authorization"][2] = token_hash["access_token"]

\* the token calls under way
InTokenCall(t) == pc[t] \in {"token_call_type", "token_call_token"}
\* a 401 handler of thread t found in place, and cleared, a token other than the one
\* its rejected call carried
ClearedAnother(t, j) ==
    /\ log[t][j].status = 401
    /\ log[t][j].cached # ""
    /\ log[t][j].cached # log[t][j].auth[2]

\* C17: nothing keeps two threads apart.  A thread makes a token call whenever it
\* finds token_hash None at line 64, so two token calls under way at once are both
\* for the same absent token_hash (it has stayed None, and each call is a grant of its
\* own); and a 401 handler clears whatever token is in place: when that is not the
\* token its rejected call carried, it is one that the other thread's token call has
\* stored since the call was dispatched.
C17_RaceWindows ==
    /\ \A t \in Threads : InTokenCall(t) => started[t] # NoTime
    /\ (\A t \in Threads : InTokenCall(t)) => (token_hash = None /\ token_by = 0)
    /\ \A t \in Threads : \A j \in BizCalls(log[t]) :
        ClearedAnother(t, j) =>
            /\ log[t][j].by \in Threads \ {t}
            /\ ~(Done(t) /\ j = Len(log[t]) /\ Raised(t, "UnauthorizedAccess"))

\* C17's case: thread 1's 401 handler has cleared the token that thread 2 had just
\* fetched and stored, and now both threads have a token call under way for the
\* token_hash that is None
C17_Witness ==
    /\ \A t \in Threads : InTokenCall(t)
    /\ token_hash = None
    /\ \E j \in BizCalls(log[1]) : ClearedAnother(1, j) /\ log[1][j].by = 2

\* C18: headers() reads one token.  get_token_type() leaves a token in place, found
\* there or fetched, and get_token() takes the access token from that same token: it
\* makes no token call of its own, so that at most one token call is made between
\* two business calls, whatever expires_in the server states and however the clock
\* advances between the two accessors.
C18_SingleTokenState ==
    \A t \in Threads :
        /\ pc[t] # "token_call_token"
        /\ \A i \in TokenCalls(log[t]) : i > 1 => log[t][i - 1].kind = "biz"

\* C19: token_hash is None or holds an access token and a token type; what a 2xx
\* answer of the token endpoint decodes to without them (the empty mapping of an
\* empty body) is not kept, so that an invocation which ended with the KeyError of a
\* missing key leaves token_hash None for the next one to fetch again.
C19_TokenHashWellFormed ==
    /\ token_hash # None => {"access_token", "token_type"} \subseteq DOMAIN token_hash
    /\ \A t \in Threads : (Done(t) /\ Raised(t, "KeyError")) => token_hash = None

====
